---- MODULE Spec2Model ----
(***************************************************************************)
(* Model of hole_report.py: the shoelace ring area, the polygon metrics    *)
(* built on it, the per-file feature traversal and the report writer.      *)
(*                                                                         *)
(* Python floats are modelled as exact rationals <<n, d>> in lowest terms  *)
(* with d > 0; the pair <<0, 0>> stands for a raised ZeroDivisionError.    *)
(* Vertices are pairs of integers.                                         *)
(***************************************************************************)
EXTENDS Integers, Sequences, FiniteSets, TLC

VARIABLES
    coords,     \* ring_area: the argument
    area,       \* ring_area: the returned value (NotCalled before the call)
    rings,      \* polygon_metrics: the argument
    metrics,    \* polygon_metrics: the returned triple
    pc,         \* position of the run
    folder,     \* the input folder: file name -> document stored in the file
    report,     \* lines of the file at the output path
    run,        \* number of the current invocation of main
    written,    \* the reports written by the invocations so far, in order
    before,     \* the file at the output path when the invocation started
    listing,    \* main: what os.listdir returned
    fi,         \* main: position of the file loop in listing
    rows,       \* main: the rows collected so far
    opened,     \* the paths opened by the invocation, in order
    stdout,     \* the lines printed by the invocation
    features,   \* process_geojson: the features of the document
    fpos,       \* process_geojson: position of the feature loop
    ppos,       \* process_geojson: position of the loop over a MultiPolygon
    index       \* process_geojson: the feature index counter

(***************************************************************************)
(* Bounds of the model.                                                    *)
(***************************************************************************)
GridMax == 3
MaxLen == 3
MaxRings == 3
MaxFeatures == 2
MaxRuns == 2

(***************************************************************************)
(* Exact arithmetic standing for Python float arithmetic.                  *)
(***************************************************************************)
Abs(x) == IF x < 0 THEN -x ELSE x

RECURSIVE GCD(_, _)
GCD(a, b) == IF b = 0 THEN a ELSE GCD(b, a % b)

ZeroDivisionError == <<0, 0>>

Rat(n, d) ==
    IF d = 0 THEN ZeroDivisionError
    ELSE LET g == GCD(Abs(n), Abs(d))
             s == IF d < 0 THEN -1 ELSE 1
         IN  <<(s * n) \div g, (s * d) \div g>>

Zero == <<0, 1>>

IsError(a) == a[2] = 0

RAdd(a, b) ==
    IF IsError(a) \/ IsError(b) THEN ZeroDivisionError
    ELSE Rat(a[1] * b[2] + b[1] * a[2], a[2] * b[2])

RSub(a, b) ==
    IF IsError(a) \/ IsError(b) THEN ZeroDivisionError
    ELSE Rat(a[1] * b[2] - b[1] * a[2], a[2] * b[2])

RMul(a, b) ==
    IF IsError(a) \/ IsError(b) THEN ZeroDivisionError
    ELSE Rat(a[1] * b[1], a[2] * b[2])

RDiv(a, b) ==
    IF IsError(a) \/ IsError(b) THEN ZeroDivisionError
    ELSE Rat(a[1] * b[2], a[2] * b[1])

RLeqZero(a) == a[1] <= 0

(***************************************************************************)
(* ring_area: the shoelace formula.                                        *)
(***************************************************************************)
RECURSIVE ShoelaceNoWrap(_, _, _)
ShoelaceNoWrap(c, i, acc) ==
    IF i >= Len(c) THEN acc
    ELSE ShoelaceNoWrap(c, i + 1, acc + c[i][1] * c[i + 1][2] - c[i + 1][1] * c[i][2])

\* for i in range(len(coords)): area += x1 * y2 - x2 * y1
RECURSIVE ShoelaceLoop(_, _, _)
ShoelaceLoop(c, i, acc) ==
    IF i > Len(c) THEN acc
    ELSE LET p1 == c[i]
             p2 == c[(i % Len(c)) + 1]
         IN  ShoelaceLoop(c, i + 1, acc + p1[1] * p2[2] - p2[1] * p1[2])

ring_area_signed(c) ==
    IF c = <<>> THEN Zero ELSE Rat(ShoelaceLoop(c, 1, 0), 2)

ring_area(c) ==
    IF c = <<>> THEN Zero ELSE Rat(Abs(ShoelaceLoop(c, 1, 0)), 2)

(***************************************************************************)
(* polygon_metrics: polygon area, hole area and hole percentage.           *)
(***************************************************************************)
\* sum(ring_area(r) for r in rs)
RECURSIVE SumRingAreas(_)
SumRingAreas(rs) ==
    IF rs = <<>> THEN Zero ELSE RAdd(ring_area(rs[1]), SumRingAreas(Tail(rs)))

HolesAll(rs) == rs

\* rings[1:]
Holes(rs) == Tail(rs)

HolePctUnguarded(polygon_area, hole_area) ==
    IF polygon_area[1] = 0 THEN Zero
    ELSE RMul(RDiv(hole_area, polygon_area), <<100, 1>>)

HolePct(polygon_area, hole_area) ==
    IF RLeqZero(polygon_area) THEN Zero
    ELSE RMul(RDiv(hole_area, polygon_area), <<100, 1>>)

polygon_metrics(rs) ==
    IF rs = <<>> THEN <<Zero, Zero, Zero>>
    ELSE LET outer_area   == ring_area(rs[1])
             hole_area    == SumRingAreas(Holes(rs))
             polygon_area == RSub(outer_area, hole_area)
         IN  <<polygon_area, hole_area, HolePct(polygon_area, hole_area)>>

(***************************************************************************)
(* Inputs.                                                                 *)
(***************************************************************************)
Grid == 0 .. GridMax
Vertex == Grid \X Grid

SeqsUpTo(S, n) == UNION {[1 .. k -> S] : k \in 0 .. n}

Square4 == <<<<0, 0>>, <<4, 0>>, <<4, 4>>, <<0, 4>>>>
Square4Rev == <<<<0, 4>>, <<4, 4>>, <<4, 0>>, <<0, 0>>>>
Square10 == <<<<0, 0>>, <<10, 0>>, <<10, 10>>, <<0, 10>>>>
Square2 == <<<<1, 1>>, <<3, 1>>, <<3, 3>>, <<1, 3>>>>
Triangle == <<<<0, 0>>, <<1, 0>>, <<0, 1>>>>
Segment == <<<<0, 0>>, <<3, 3>>>>

SampleRings == {<<>>, Square4, Square4Rev, Square10, Square2, Triangle, Segment}

GridRings == SeqsUpTo(Vertex, MaxLen) \cup SampleRings

RingLists == SeqsUpTo(SampleRings, MaxRings)

NotCalled == <<>>

coreVars == <<coords, area, rings, metrics>>
mainVars == <<folder, report, run, written, before, listing, fi, rows, opened,
              stdout, features, fpos, ppos, index>>
vars == <<coords, area, rings, metrics, pc, folder, report, run, written, before,
          listing, fi, rows, opened, stdout, features, fpos, ppos, index>>

\* The traversal and the report are not part of a call of the core functions.
MainUnused ==
    /\ folder = <<>>
    /\ report = <<>>
    /\ run = 0
    /\ written = <<>>
    /\ before = <<>>
    /\ listing = <<>>
    /\ fi = 0
    /\ rows = <<>>
    /\ opened = <<>>
    /\ stdout = <<>>
    /\ features = <<>>
    /\ fpos = 0
    /\ ppos = 0
    /\ index = 0

(***************************************************************************)
(* Specification of ring_area applied to every ring of the bounded grid.   *)
(***************************************************************************)
InitRing ==
    /\ coords \in GridRings
    /\ area = NotCalled
    /\ rings = <<>>
    /\ metrics = NotCalled
    /\ pc = "call"
    /\ MainUnused

CallRingArea ==
    /\ pc = "call"
    /\ area' = ring_area(coords)
    /\ pc' = "returned"
    /\ UNCHANGED <<coords, rings, metrics, mainVars>>

NextRing == CallRingArea

SpecRing == InitRing /\ [][NextRing]_vars

(***************************************************************************)
(* Specification of polygon_metrics applied to bounded ring lists.         *)
(***************************************************************************)
InitMetrics ==
    /\ rings \in RingLists
    /\ metrics = NotCalled
    /\ coords = <<>>
    /\ area = NotCalled
    /\ pc = "call"
    /\ MainUnused

CallPolygonMetrics ==
    /\ pc = "call"
    /\ metrics' = polygon_metrics(rings)
    /\ pc' = "returned"
    /\ UNCHANGED <<coords, area, rings, mainVars>>

NextMetrics == CallPolygonMetrics

SpecMetrics == InitMetrics /\ [][NextMetrics]_vars

(***************************************************************************)
(* File names are sequences of characters, so that lower() and endswith()  *)
(* are computed and not assumed.                                           *)
(***************************************************************************)
NameA == <<"a", ".", "j", "s", "o", "n">>
NameB == <<"B", ".", "G", "e", "o", "J", "S", "O", "N">>
NameC == <<"c", ".", "j", "s", "o", "n", ".", "b", "a", "k">>
OutputPath == <<"h", "o", "l", "e", "_", "r", "e", "p", "o", "r", "t", ".", "c", "s", "v">>

LowerChar(ch) ==
    CASE ch = "B" -> "b"
      [] ch = "E" -> "e"
      [] ch = "G" -> "g"
      [] ch = "J" -> "j"
      [] ch = "N" -> "n"
      [] ch = "O" -> "o"
      [] ch = "S" -> "s"
      [] OTHER -> ch

\* str.lower()
Lower(name) == [i \in 1 .. Len(name) |-> LowerChar(name[i])]

\* str.endswith(suffix)
EndsWith(name, suffix) ==
    /\ Len(name) >= Len(suffix)
    /\ SubSeq(name, Len(name) - Len(suffix) + 1, Len(name)) = suffix

DotJson == <<".", "j", "s", "o", "n">>
DotGeojson == <<".", "g", "e", "o", "j", "s", "o", "n">>

SelectedCaseSensitive(filename) ==
    EndsWith(filename, DotJson) \/ EndsWith(filename, DotGeojson)

\* filename.lower().endswith(('.json', '.geojson'))
Selected(filename) ==
    EndsWith(Lower(filename), DotJson) \/ EndsWith(Lower(filename), DotGeojson)

(***************************************************************************)
(* Documents.  A feature is [geometry |-> g]; g is None for "geometry":    *)
(* null and otherwise [type |-> t, coordinates |-> c].  A document of type *)
(* "invalid" is one json.load rejects.                                     *)
(***************************************************************************)
None == [type |-> "None", coordinates |-> <<>>]

PolyA == <<Square10, Square2>>
PolyB == <<Square4>>

Geometry(t, c) == [type |-> t, coordinates |-> c]
Feature(g) == [type |-> "Feature", geometry |-> g, features |-> <<>>]
FeatureCollection(fs) == [type |-> "FeatureCollection", geometry |-> None, features |-> fs]
InvalidDoc == [type |-> "invalid", geometry |-> None, features |-> <<>>]

SomeFeatures ==
    { Feature(Geometry("Polygon", PolyA)),
      Feature(Geometry("MultiPolygon", <<PolyB, PolyA>>)),
      Feature(Geometry("Point", <<1, 2>>)),
      Feature(None) }

Docs ==
    {FeatureCollection(fs) : fs \in SeqsUpTo(SomeFeatures, MaxFeatures)}
        \cup SomeFeatures \cup {InvalidDoc}

OtherDocs ==
    { Feature(Geometry("Polygon", PolyB)),
      FeatureCollection(<<Feature(Geometry("LineString", <<<<0, 0>>, <<1, 1>>>>)),
                          Feature(Geometry("MultiPolygon", <<>>)),
                          Feature(Geometry("MultiPolygon", <<PolyA>>))>>),
      InvalidDoc }

Folders ==
    {(NameA :> da) @@ (NameB :> db) @@ (NameC :> InvalidDoc) :
        da \in Docs, db \in OtherDocs}

\* The orders in which os.listdir may return the names of a folder.
Listings(fld) ==
    LET names == DOMAIN fld
        n == Cardinality(names)
    IN  {l \in [1 .. n -> names] : \A i, j \in 1 .. n : l[i] = l[j] => i = j}

fieldnames == <<"file", "feature_index", "polygon_area", "hole_area", "hole_percent">>

StaleReport == <<fieldnames, <<<<"o", "l", "d">>, 1, Zero, Zero, Zero>>>>

\* The row main appends for the polygon with ring list c.
Row(filename, i, c) ==
    LET m == polygon_metrics(c)
    IN  [file |-> filename, feature_index |-> i, polygon_area |-> m[1],
         hole_area |-> m[2], hole_percent |-> m[3]]

\* csv.DictWriter.writerow: the values in the order of fieldnames
DictRow(row) ==
    <<row.file, row.feature_index, row.polygon_area, row.hole_area, row.hole_percent>>

CsvLines(rs) == <<fieldnames>> \o [i \in 1 .. Len(rs) |-> DictRow(rs[i])]

(***************************************************************************)
(* main and process_geojson.                                               *)
(***************************************************************************)
Init ==
    /\ folder \in Folders
    /\ report \in {<<>>, StaleReport}
    /\ run = 1
    /\ written = <<>>
    /\ before = report
    /\ pc = "start"
    /\ listing = <<>>
    /\ fi = 0
    /\ rows = <<>>
    /\ opened = <<>>
    /\ stdout = <<>>
    /\ features = <<>>
    /\ fpos = 0
    /\ ppos = 0
    /\ index = 0
    /\ coords = <<>>
    /\ area = NotCalled
    /\ rings = <<>>
    /\ metrics = NotCalled

InFileLoop == pc = "files" /\ fi <= Len(listing)
InFeatureLoop == pc = "features" /\ fpos <= Len(features)
geom == features[fpos].geometry

\* rows = []; for filename in os.listdir(args.folder)
ListFolder ==
    /\ pc = "start"
    /\ listing' \in Listings(folder)
    /\ fi' = 1
    /\ rows' = <<>>
    /\ pc' = "files"
    /\ UNCHANGED <<folder, report, run, written, before, opened, stdout,
                   features, fpos, ppos, index, coreVars>>

\* if not filename.lower().endswith(...): continue
SkipFile ==
    /\ InFileLoop
    /\ ~Selected(listing[fi])
    /\ fi' = fi + 1
    /\ UNCHANGED <<pc, folder, report, run, written, before, listing, rows, opened,
                   stdout, features, fpos, ppos, index, coreVars>>

OpenGeojsonKeepIndex ==
    /\ InFileLoop
    /\ Selected(listing[fi])
    /\ folder[listing[fi]].type # "invalid"
    /\ opened' = Append(opened, listing[fi])
    /\ features' = IF folder[listing[fi]].type = "FeatureCollection"
                   THEN folder[listing[fi]].features
                   ELSE <<folder[listing[fi]]>>
    /\ fpos' = 1
    /\ pc' = "features"
    /\ UNCHANGED <<folder, report, run, written, before, listing, fi, rows, stdout,
                   ppos, index, coreVars>>

OpenGeojsonResetRows ==
    /\ InFileLoop
    /\ Selected(listing[fi])
    /\ folder[listing[fi]].type # "invalid"
    /\ opened' = Append(opened, listing[fi])
    /\ features' = IF folder[listing[fi]].type = "FeatureCollection"
                   THEN folder[listing[fi]].features
                   ELSE <<folder[listing[fi]]>>
    /\ index' = 0
    /\ fpos' = 1
    /\ rows' = <<>>
    /\ pc' = "features"
    /\ UNCHANGED <<folder, report, run, written, before, listing, fi, stdout,
                   ppos, coreVars>>

\* process_geojson up to the feature loop: open, json.load, features, index = 0
OpenGeojson ==
    /\ InFileLoop
    /\ Selected(listing[fi])
    /\ folder[listing[fi]].type # "invalid"
    /\ opened' = Append(opened, listing[fi])
    /\ features' = IF folder[listing[fi]].type = "FeatureCollection"
                   THEN folder[listing[fi]].features
                   ELSE <<folder[listing[fi]]>>
    /\ index' = 0
    /\ fpos' = 1
    /\ pc' = "features"
    /\ UNCHANGED <<folder, report, run, written, before, listing, fi, rows, stdout,
                   ppos, coreVars>>

LoadFailsSkipFile ==
    /\ InFileLoop
    /\ Selected(listing[fi])
    /\ folder[listing[fi]].type = "invalid"
    /\ opened' = Append(opened, listing[fi])
    /\ fi' = fi + 1
    /\ UNCHANGED <<pc, folder, report, run, written, before, listing, rows, stdout,
                   features, fpos, ppos, index, coreVars>>

\* json.load raises: the exception leaves main, whose rows are lost
LoadFails ==
    /\ InFileLoop
    /\ Selected(listing[fi])
    /\ folder[listing[fi]].type = "invalid"
    /\ opened' = Append(opened, listing[fi])
    /\ rows' = <<>>
    /\ pc' = "failed"
    /\ UNCHANGED <<folder, report, run, written, before, listing, fi, stdout,
                   features, fpos, ppos, index, coreVars>>

\* geom.get on None raises AttributeError
GeometryIsNone ==
    /\ InFeatureLoop
    /\ geom = None
    /\ rows' = <<>>
    /\ pc' = "failed"
    /\ UNCHANGED <<folder, report, run, written, before, listing, fi, opened, stdout,
                   features, fpos, ppos, index, coreVars>>

\* if gtype == 'Polygon': index += 1; yield; main appends the row
EmitPolygon ==
    /\ InFeatureLoop
    /\ geom # None
    /\ geom.type = "Polygon"
    /\ index' = index + 1
    /\ rows' = Append(rows, Row(listing[fi], index', geom.coordinates))
    /\ fpos' = fpos + 1
    /\ UNCHANGED <<pc, folder, report, run, written, before, listing, fi, opened,
                   stdout, features, ppos, coreVars>>

\* elif gtype == 'MultiPolygon': for poly in coords
EnterMultiPolygon ==
    /\ InFeatureLoop
    /\ geom # None
    /\ geom.type = "MultiPolygon"
    /\ ppos' = 1
    /\ pc' = "multi"
    /\ UNCHANGED <<folder, report, run, written, before, listing, fi, rows, opened,
                   stdout, features, fpos, index, coreVars>>

EmitPartNoIncrement ==
    /\ pc = "multi"
    /\ ppos <= Len(geom.coordinates)
    /\ index' = IF ppos = 1 THEN index + 1 ELSE index
    /\ rows' = Append(rows, Row(listing[fi], index', geom.coordinates[ppos]))
    /\ ppos' = ppos + 1
    /\ UNCHANGED <<pc, folder, report, run, written, before, listing, fi, opened,
                   stdout, features, fpos, coreVars>>

\* index += 1; yield; main appends the row
EmitPart ==
    /\ pc = "multi"
    /\ ppos <= Len(geom.coordinates)
    /\ index' = index + 1
    /\ rows' = Append(rows, Row(listing[fi], index', geom.coordinates[ppos]))
    /\ ppos' = ppos + 1
    /\ UNCHANGED <<pc, folder, report, run, written, before, listing, fi, opened,
                   stdout, features, fpos, coreVars>>

\* the loop over the polygons of the MultiPolygon is exhausted
LeaveMultiPolygon ==
    /\ pc = "multi"
    /\ ppos > Len(geom.coordinates)
    /\ fpos' = fpos + 1
    /\ pc' = "features"
    /\ UNCHANGED <<folder, report, run, written, before, listing, fi, rows, opened,
                   stdout, features, ppos, index, coreVars>>

SkipFeatureCounting ==
    /\ InFeatureLoop
    /\ geom # None
    /\ geom.type \notin {"Polygon", "MultiPolygon"}
    /\ index' = index + 1
    /\ fpos' = fpos + 1
    /\ UNCHANGED <<pc, folder, report, run, written, before, listing, fi, rows,
                   opened, stdout, features, ppos, coreVars>>

\* else: continue
SkipFeature ==
    /\ InFeatureLoop
    /\ geom # None
    /\ geom.type \notin {"Polygon", "MultiPolygon"}
    /\ fpos' = fpos + 1
    /\ UNCHANGED <<pc, folder, report, run, written, before, listing, fi, rows,
                   opened, stdout, features, ppos, index, coreVars>>

\* the generator is exhausted: main takes the next file name
EndOfFeatures ==
    /\ pc = "features"
    /\ fpos > Len(features)
    /\ fi' = fi + 1
    /\ pc' = "files"
    /\ UNCHANGED <<folder, report, run, written, before, listing, rows, opened,
                   stdout, features, fpos, ppos, index, coreVars>>

\* open(args.output, 'w'); writeheader; writerow for every row
WriteReport ==
    /\ pc = "files"
    /\ fi > Len(listing)
    /\ opened' = Append(opened, OutputPath)
    /\ report' = CsvLines(rows)
    /\ written' = Append(written, report')
    /\ pc' = "print"
    /\ UNCHANGED <<folder, run, before, listing, fi, rows, stdout, features, fpos,
                   ppos, index, coreVars>>

\* print(f'Report written to {args.output}')
PrintConfirmation ==
    /\ pc = "print"
    /\ stdout' = Append(stdout, OutputPath)
    /\ pc' = "done"
    /\ UNCHANGED <<folder, report, run, written, before, listing, fi, rows, opened,
                   features, fpos, ppos, index, coreVars>>

\* The program is run again on the same folder.
Rerun ==
    /\ pc \in {"done", "failed"}
    /\ run < MaxRuns
    /\ run' = run + 1
    /\ before' = report
    /\ pc' = "start"
    /\ listing' = <<>>
    /\ fi' = 0
    /\ rows' = <<>>
    /\ opened' = <<>>
    /\ stdout' = <<>>
    /\ features' = <<>>
    /\ fpos' = 0
    /\ ppos' = 0
    /\ index' = 0
    /\ UNCHANGED <<folder, report, written, coreVars>>

Next ==
    \/ ListFolder
    \/ SkipFile
    \/ OpenGeojson
    \/ LoadFails
    \/ GeometryIsNone
    \/ EmitPolygon
    \/ EnterMultiPolygon
    \/ EmitPart
    \/ LeaveMultiPolygon
    \/ SkipFeature
    \/ EndOfFeatures
    \/ WriteReport
    \/ PrintConfirmation
    \/ Rerun

Spec == Init /\ [][Next]_vars

(***************************************************************************)
(* Definitions used to state the properties.                               *)
(***************************************************************************)
Range(f) == {f[x] : x \in DOMAIN f}

Reverse(c) == [i \in 1 .. Len(c) |-> c[Len(c) + 1 - i]]

\* The sum of x_i * y_j - x_j * y_i over the vertices i in I, j the vertex after i.
RECURSIVE CrossSum(_, _)
CrossSum(c, I) ==
    IF I = {} THEN 0
    ELSE LET i == CHOOSE k \in I : TRUE
             j == IF i = Len(c) THEN 1 ELSE i + 1
         IN  c[i][1] * c[j][2] - c[j][1] * c[i][2] + CrossSum(c, I \ {i})

\* The sum of the areas of the rings of rs at the positions in I.
RECURSIVE AreaSum(_, _)
AreaSum(rs, I) ==
    IF I = {} THEN Zero
    ELSE LET i == CHOOSE k \in I : \A m \in I : m <= k
         IN  RAdd(AreaSum(rs, I \ {i}), ring_area(rs[i]))

\* A name ends in .json or .geojson, in any mix of upper and lower case.
MatchesSuffix(name, variants) ==
    /\ Len(name) >= Len(variants)
    /\ \A i \in 1 .. Len(variants) : name[Len(name) - Len(variants) + i] \in variants[i]

JsonLike(name) ==
    \/ MatchesSuffix(name, <<{"."}, {"j", "J"}, {"s", "S"}, {"o", "O"}, {"n", "N"}>>)
    \/ MatchesSuffix(name, <<{"."}, {"g", "G"}, {"e", "E"}, {"o", "O"}, {"j", "J"},
                             {"s", "S"}, {"o", "O"}, {"n", "N"}>>)

\* The ring lists of the polygons of a sequence of features, in document order.
RECURSIVE PolygonsOf(_)
PolygonsOf(fs) ==
    IF fs = <<>> THEN <<>>
    ELSE LET g == fs[1].geometry
         IN  (CASE g.type = "Polygon" -> <<g.coordinates>>
                [] g.type = "MultiPolygon" -> g.coordinates
                [] OTHER -> <<>>) \o PolygonsOf(Tail(fs))

FeaturesOf(doc) == IF doc.type = "FeatureCollection" THEN doc.features ELSE <<doc>>

\* The report lines of one file: one per polygon, numbered from 1.
LinesOfFile(name, doc) ==
    LET ps == PolygonsOf(FeaturesOf(doc))
    IN  [k \in 1 .. Len(ps) |->
            <<name, k, polygon_metrics(ps[k])[1], polygon_metrics(ps[k])[2],
              polygon_metrics(ps[k])[3]>>]

RECURSIVE ExpectedLines(_)
ExpectedLines(l) ==
    IF l = <<>> THEN <<>>
    ELSE (IF JsonLike(l[1]) THEN LinesOfFile(l[1], folder[l[1]]) ELSE <<>>)
            \o ExpectedLines(Tail(l))

\* The rows collected from the file being read.
CurrentBlock ==
    LET OfFile(r) == r.file = listing[fi]
    IN  SelectSeq(rows, OfFile)

\* The data lines of a written report that belong to one file.
DataOf(w, name) ==
    LET OfFile(line) == line[1] = name
    IN  SelectSeq(Tail(w), OfFile)

FileColumn(w) == [k \in 1 .. Len(w) - 1 |-> w[k + 1][1]]

HasInvalidSelected ==
    \E name \in DOMAIN folder : JsonLike(name) /\ folder[name].type = "invalid"

(***************************************************************************)
(* Properties.                                                             *)
(***************************************************************************)

\* C1: while a document is being read, the rows emitted for it carry the
\* feature_index values 1, 2, ..., n in emission order, the counter equals the
\* number of rows emitted, and that number is one per Polygon feature and one
\* per constituent polygon of each MultiPolygon feature read so far.
C1_IndicesCountRows ==
    pc \in {"features", "multi"} =>
        /\ \A k \in 1 .. Len(CurrentBlock) : CurrentBlock[k].feature_index = k
        /\ index = Len(CurrentBlock)
        /\ Len(CurrentBlock) =
              Len(PolygonsOf(SubSeq(features, 1, fpos - 1)))
                + (IF pc = "multi" THEN ppos - 1 ELSE 0)

C1_Witness ==
    /\ pc = "features"
    /\ Len(features) = 2
    /\ features[1].geometry.type = "Polygon"
    /\ features[2].geometry.type = "MultiPolygon"
    /\ fpos = 3
    /\ [k \in 1 .. Len(CurrentBlock) |-> CurrentBlock[k].feature_index] = <<1, 2, 3>>

\* C2: a feature whose geometry type is neither Polygon nor MultiPolygon is
\* passed over in one step that emits no row, raises no error and leaves the
\* feature index counter unchanged.
C2_SkipLeavesCounter ==
    [][(/\ pc = "features"
        /\ fpos <= Len(features)
        /\ features[fpos].geometry # None
        /\ features[fpos].geometry.type \notin {"Polygon", "MultiPolygon"})
        => (/\ rows' = rows
            /\ index' = index
            /\ pc' = "features"
            /\ fpos' = fpos + 1)]_vars

C2_Witness ==
    /\ pc = "features"
    /\ Len(features) = 2
    /\ features[1].geometry.type = "Point"
    /\ features[2].geometry.type = "Polygon"
    /\ fpos = 3
    /\ index = 1
    /\ rows[Len(rows)].feature_index = 1

\* C3: the hole percentage is 0 whenever the polygon area is <= 0 and
\* otherwise it is hole area / polygon area * 100; it is never negative and
\* never the outcome of a division by zero.
C3_HolePercentPolicy ==
    pc = "returned" /\ metrics # NotCalled =>
        LET pa == metrics[1]
            ha == metrics[2]
            pct == metrics[3]
        IN  /\ pct[2] > 0
            /\ pct[1] >= 0
            /\ pa[1] <= 0 => pct = Zero
            /\ pa[1] > 0 => pct[1] * pa[1] * ha[2] = 100 * ha[1] * pa[2] * pct[2]

C3_Witness ==
    /\ pc = "returned"
    /\ rings = <<Square2, Square10>>
    /\ metrics[1] = <<-96, 1>>
    /\ metrics[3] = Zero

\* C4: polygon_metrics returns (0, 0, 0) for the empty ring list; otherwise
\* the hole area is the sum of the areas of the rings after the first and the
\* polygon area is the area of the first ring minus that sum, so a single
\* ring gives (its area, 0, 0); the polygon area may be zero or negative.
C4_MetricsFromRingAreas ==
    pc = "returned" /\ metrics # NotCalled =>
        /\ rings = <<>> => metrics = <<Zero, Zero, Zero>>
        /\ rings # <<>> =>
              /\ metrics[2] = AreaSum(rings, 2 .. Len(rings))
              /\ metrics[1] = RSub(ring_area(rings[1]), AreaSum(rings, 2 .. Len(rings)))
        /\ Len(rings) = 1 => metrics = <<ring_area(rings[1]), Zero, Zero>>

C4_Witness ==
    /\ pc = "returned"
    /\ rings = <<Square10, Square2>>
    /\ metrics = <<<<96, 1>>, <<4, 1>>, <<25, 6>>>>

\* C5: ring_area returns a non-negative value, half the absolute value of the
\* sum of x_i * y_(i+1) - x_(i+1) * y_i over all consecutive vertex pairs,
\* the pair from the last vertex back to the first included; it is 0 for the
\* empty ring.
C5_ShoelaceArea ==
    pc = "returned" /\ area # NotCalled =>
        /\ area[2] > 0
        /\ area[1] >= 0
        /\ 2 * area[1] = Abs(CrossSum(coords, 1 .. Len(coords))) * area[2]
        /\ coords = <<>> => area = Zero

C5_Witness ==
    /\ pc = "returned"
    /\ coords = Square4
    /\ area = <<16, 1>>

\* C6: the area of a ring equals the area of the ring with its vertices in
\* reversed order.
C6_WindingOrder ==
    pc = "returned" /\ area # NotCalled => area = ring_area(Reverse(coords))

C6_Witness ==
    /\ pc = "returned"
    /\ coords = Square4Rev
    /\ area = <<16, 1>>
    /\ CrossSum(coords, 1 .. Len(coords)) < 0

\* C7: the report written by main is the header line followed by exactly one
\* line per polygon: the lines of a file are contiguous, the files come in
\* the order of the directory listing, and within a file the lines come in
\* document order with feature_index 1, 2, ...
C7_ReportInProcessingOrder ==
    pc \in {"print", "done"} => report = <<fieldnames>> \o ExpectedLines(listing)

C7_Witness ==
    /\ pc = "done"
    /\ Len(report) >= 4
    /\ report[2][1] # report[Len(report)][1]
    /\ report[Len(report)][2] > 1

\* C8 as claimed: every run on the same folder writes the same report,
\* whatever order the directory listing returns the names in.
C8_SameReportEveryRun ==
    \A i, j \in DOMAIN written : written[i] = written[j]

\* C8 as amended: every run on the same folder writes the same lines for each
\* file, and two runs whose reports name the files in the same order write
\* the same report.
C8_SameLinesPerFile ==
    \A i, j \in DOMAIN written :
        /\ \A name \in DOMAIN folder : DataOf(written[i], name) = DataOf(written[j], name)
        /\ FileColumn(written[i]) = FileColumn(written[j]) => written[i] = written[j]

C8_Witness ==
    /\ Len(written) = 2
    /\ written[1] # written[2]
    /\ Len(written[1]) >= 4

\* C9: exactly the files whose name ends in .json or .geojson, in any case,
\* are opened and contribute rows; no other name is opened, gives a row or
\* stops the run.
C9_OnlyJsonNamesOpened ==
    /\ \A k \in 1 .. Len(opened) :
          opened[k] = OutputPath \/ (JsonLike(opened[k]) /\ opened[k] \in DOMAIN folder)
    /\ \A k \in 1 .. Len(rows) :
          JsonLike(rows[k].file) /\ rows[k].file \in Range(opened)
    /\ pc = "failed" => JsonLike(listing[fi])
    /\ pc \in {"print", "done"} =>
          \A name \in DOMAIN folder : JsonLike(name) => name \in Range(opened)

C9_Witness ==
    /\ pc = "done"
    /\ NameB \in Range(opened)
    /\ NameC \notin Range(opened)
    /\ \E k \in 1 .. Len(rows) : rows[k].file = NameB
    /\ listing[1] = NameC

\* C10: when a selected file fails to load, the run never reaches the
\* writing of the report: the output path is not opened, the file there stays
\* as it was, nothing is printed, and the collected rows are lost.
C10_FailedRunWritesNothing ==
    /\ HasInvalidSelected =>
          /\ pc \notin {"print", "done"}
          /\ OutputPath \notin Range(opened)
          /\ report = before
          /\ written = <<>>
          /\ stdout = <<>>
    /\ pc = "failed" => rows = <<>> /\ report = before /\ stdout = <<>>

C10_Witness ==
    /\ pc = "failed"
    /\ run = 2
    /\ report = StaleReport
    /\ Len(opened) = 2
    /\ Len(PolygonsOf(FeaturesOf(folder[opened[1]]))) > 0
    /\ folder[opened[2]].type = "invalid"

====
